---- MODULE Spec2Model ----
(***************************************************************************)
(* Model of scripts/compile_kernel.py: the build-sign-install pipeline.   *)
(* The run starts after the kernel version has been chosen (main, line    *)
(* 466) and follows main, compile_kernel, sign_efi and install_kernel     *)
(* statement by statement.  Every external command and every file-system  *)
(* call either succeeds or fails; a failure takes the except branch of    *)
(* the code.                                                              *)
(***************************************************************************)
EXTENDS Integers, Sequences, FiniteSets, TLC

VARIABLES
    is_uki,          \* args.uki
    sign_kernel,     \* args.sign
    install,         \* args.install
    use_tmpfs,       \* args.tmpfs
    compile_nvidia,  \* args.nvidia
    path_dirs,       \* os.environ["PATH"] split: one set of entry names per directory
    key_files,       \* files present in /etc/keys/efikeys
    linux_symlink,   \* what /usr/src/linux references
    tmpfs_layers,    \* mounts stacked on tmpfs_dir: the state of kernel_tmpfs_dir in each
    published,       \* content of each output file under local_src_dir
    boot_mounted,    \* /boot is mounted
    boot_efi,        \* content of /boot/efi/boot/bootx64.efi
    work_dir,        \* main's work_dir
    pc,              \* the statement the process is about to execute
    log,             \* the commands and file-system calls made so far, in order
    failed,          \* the step whose failure ended the run
    exit_status      \* the status the process terminated with

VARIABLES
    kernels,         \* main's sorted list of kernel directory names
    selection,       \* main's selection once converted to an integer
    config_file,     \* the lines of kernel_dir/.config
    linux_ver,       \* main's linux_ver
    kver,            \* main's kver
    query,           \* the argument of a check_for_executable call
    found            \* the value that call returned

\* clean_up_kernel_source_dirs.py; clean_up_module_paths.py keeps its
\* /lib/modules in dir_contents, its sorted_contents and its paths_to_remove
\* (in removal_list) in the same variables
VARIABLES
    src_listing,     \* the names system_src_dir.iterdir() yields, in its order
    dir_contents,    \* the entries of each subdirectory of system_src_dir
    sorted_contents, \* main's sorted_contents
    removal_list,    \* main's removal_list
    prompt_idx,      \* the position of main's loop over sorted_contents
    prune_pos        \* the position of prune_list's loops over removal_list

\* create_backup_kernel.py
VARIABLES
    boot_files,      \* bootx64.efi and backup.efi under /boot/efi/boot, on the
                     \* boot partition and in the directory it is mounted over
    kernel_version   \* main's kernel_version

\* update_kernel_sources.py; dir_contents holds /usr/src and the local
\* linux directory, sorted_contents is local_kernels, config_file is the
\* .config of the new tree
VARIABLES
    latest_kernel,   \* the name of latest_kernel_path
    prev_kernel,     \* the name of prev_local_kernel_path
    prev_config      \* the lines of the .config of the local trees before the run

\* Strings that the code takes apart are sequences of tokens:
\* "linux-6.9.1" is <<"linux-", "6.9.1">>.

selectVars == <<kernels, selection, config_file, linux_ver, kver>>
locatorVars == <<query, found>>
pruneVars == <<src_listing, dir_contents, sorted_contents, removal_list,
               prompt_idx, prune_pos>>

backupVars == <<boot_files, kernel_version>>
updateVars == <<latest_kernel, prev_kernel, prev_config>>
restVars == <<backupVars, updateVars>>

\* the variables the pipeline from line 466 on does not touch
outside == <<selectVars, locatorVars, pruneVars, restVars>>

flags == <<is_uki, sign_kernel, install, use_tmpfs, compile_nvidia>>
environ == <<path_dirs, key_files>>
vars == <<is_uki, sign_kernel, install, use_tmpfs, compile_nvidia, path_dirs,
          key_files, linux_symlink, tmpfs_layers, published, boot_mounted,
          boot_efi, work_dir, pc, log, failed, exit_status,
          kernels, selection, config_file, linux_ver, kver, query, found,
          src_listing, dir_contents, sorted_contents, removal_list, prompt_idx,
          prune_pos, boot_files, kernel_version, latest_kernel, prev_kernel,
          prev_config>>

----------------------------------------------------------------------------
(* Paths *)

LocalSrcDir == "/usr/local/src/myhost"
LinuxVer == "linux-6.9.1"
Kver == "6.9.1-myhost-1.2.3"
KernelDir == LocalSrcDir \o "/linux/" \o LinuxVer
TmpfsDir == "/var/tmp/linux/myhost"
KernelTmpfsDir == TmpfsDir \o "/" \o LinuxVer
LinuxSymlinkPath == "/usr/src/linux"
BootDir == "/boot"
BootEfiPath == "/boot/efi/boot/bootx64.efi"

OutputDirPlain(uki) == LocalSrcDir \o "/vmlinuz"
OutputDir(uki) == LocalSrcDir \o (IF uki THEN "/uki" ELSE "/vmlinuz")
OutputFilePath(uki) == OutputDir(uki) \o "/vmlinuz-" \o Kver \o ".efi"
BzImagePathCanonical(wd) == KernelDir \o "/arch/x86/boot/bzImage"
BzImagePath(wd) == wd \o "/arch/x86/boot/bzImage"
OutputPaths == {OutputFilePath(TRUE), OutputFilePath(FALSE)}

----------------------------------------------------------------------------
(* Environment *)

NumPathDirs == 2
OptionalTools == {"dracut", "sbsign"}
KeyFileNames == {"db.key", "db.crt"}

\* lines 76-81: the loop over the directories, from the i-th on; exists()
\* is true of the names a directory's set holds
SearchFromFirstOnly(dirs, name, i) == i <= Len(dirs) /\ name \in dirs[i]
RECURSIVE SearchFrom(_, _, _)
SearchFrom(dirs, name, i) ==
    IF i > Len(dirs) THEN FALSE
    ELSE IF name \in dirs[i] THEN TRUE
    ELSE SearchFrom(dirs, name, i + 1)

check_for_executable_always(ex_name) == TRUE
check_for_executable(ex_name) == SearchFrom(path_dirs, ex_name, 1)

KeyPresent == "db.key" \in key_files
CrtPresentUnchecked == TRUE
CrtPresent == "db.crt" \in key_files

\* the kernel_tmpfs_dir a process sees: that of the topmost mount
ScratchState ==
    IF Len(tmpfs_layers) = 0 THEN "absent" ELSE tmpfs_layers[Len(tmpfs_layers)]

SetScratch(s) == [tmpfs_layers EXCEPT ![Len(tmpfs_layers)] = s]

----------------------------------------------------------------------------
(* Log *)

Ev(op, src, dst) == [op |-> op, src |-> src, dst |-> dst]
Invoked(op) == \E i \in 1..Len(log) : log[i].op = op

----------------------------------------------------------------------------
(* Initial state: the process is at line 466 of main, the kernel chosen *)

OtherKernelDir == LocalSrcDir \o "/linux/linux-6.8.9"

\* the values of the variables a specification does not use
SelectUnused ==
    /\ kernels = <<>>
    /\ selection = -1
    /\ config_file = <<>>
    /\ linux_ver = <<>>
    /\ kver = <<>>

LocatorUnused ==
    /\ query = ""
    /\ found = FALSE

PruneUnused ==
    /\ src_listing = <<>>
    /\ dir_contents = <<>>
    /\ sorted_contents = <<>>
    /\ removal_list = <<>>
    /\ prompt_idx = 0
    /\ prune_pos = 0

BackupUnused ==
    /\ boot_files = <<>>
    /\ kernel_version = "unset"

UpdateUnused ==
    /\ latest_kernel = <<>>
    /\ prev_kernel = <<>>
    /\ prev_config = <<>>

PipelineUnused ==
    /\ is_uki = FALSE
    /\ sign_kernel = FALSE
    /\ install = FALSE
    /\ use_tmpfs = FALSE
    /\ compile_nvidia = FALSE
    /\ key_files = {}
    /\ tmpfs_layers = <<>>
    /\ published = [p \in OutputPaths |-> "absent"]
    /\ boot_mounted = FALSE
    /\ boot_efi = "old"
    /\ work_dir = "unset"

Init ==
    /\ is_uki \in BOOLEAN
    /\ sign_kernel \in BOOLEAN
    /\ install \in BOOLEAN
    /\ use_tmpfs \in BOOLEAN
    /\ compile_nvidia \in BOOLEAN
    /\ path_dirs \in [1..NumPathDirs -> SUBSET OptionalTools]
    /\ key_files \in SUBSET KeyFileNames
    /\ linux_symlink \in {"absent", KernelDir, KernelTmpfsDir, OtherKernelDir}
    /\ tmpfs_layers \in {<<>>, <<"absent">>, <<"full">>}
    /\ published \in {[p \in OutputPaths |-> c] : c \in {"absent", "old"}}
    /\ boot_mounted = FALSE
    /\ boot_efi = "old"
    /\ work_dir = "unset"
    /\ pc = "prepare"
    /\ log = <<>>
    /\ failed = "none"
    /\ exit_status = "running"
    /\ SelectUnused
    /\ LocatorUnused
    /\ PruneUnused
    /\ BackupUnused
    /\ UpdateUnused

----------------------------------------------------------------------------
(* Control flow helpers *)

\* sys.exit(1) in an except branch or after a failed check
AbortRetry(step) ==
    /\ failed' = step
    /\ UNCHANGED <<pc, exit_status>>

Abort(step) ==
    /\ failed' = step
    /\ exit_status' = "1"
    /\ pc' = "done"

Goto(next) ==
    /\ pc' = next
    /\ UNCHANGED <<failed, exit_status>>

\* the outcome of a command or file-system call: it returns or raises
Outcomes == BOOLEAN

\* what a failed write may leave at its destination
AfterFailedWrite(before) == {before, "partial"}

\* compile_kernel, line 132: the branch taken after modules_install
AfterModulesInstall == IF is_uki THEN "check_dracut" ELSE "publish"

\* compile_kernel, line 150: the stage that follows the initramfs build
AfterDracutNoRebuild == "publish"
AfterDracut == "make_again"

\* compile_kernel, line 181: the branch taken after the image is published
AfterPublish == IF compile_nvidia THEN "emerge" ELSE "restore"

\* main, line 524
AfterRestoreNoTeardown == "check_install"
AfterRestoreAlwaysTeardown == "rmtree"
AfterRestore == IF use_tmpfs THEN "rmtree" ELSE "check_install"

\* main, lines 505-508 and 516-519: unlink() when the path is a symbolic
\* link, then symlink_to(target), which needs the path to be free
RelinkNoUnlink(link, target) == IF link = "absent" THEN target ELSE link
Relink(link, target) ==
    LET unlinked == IF link # "absent" THEN "absent" ELSE link
    IN  IF unlinked = "absent" THEN target ELSE link

\* main, line 508 and line 519: the targets of the two symlink_to calls
RedirectTargetCanonical == KernelDir
RedirectTargetScratch == KernelTmpfsDir
RedirectTarget == work_dir
RestoreTargetWorkDir == work_dir
RestoreTarget == KernelDir

\* compile_kernel, line 168
PublishWithSignerAlways == TRUE
PublishWithSigner == sign_kernel

----------------------------------------------------------------------------
(* main, lines 466-500: the work directory *)

Prepare ==
    /\ pc = "prepare"
    /\ IF use_tmpfs
       THEN /\ work_dir' = KernelTmpfsDir
            /\ \E ok \in Outcomes :
                /\ log' = Append(log, Ev("mount", "", TmpfsDir))
                /\ IF ok
                   THEN /\ tmpfs_layers' = Append(tmpfs_layers, "absent")
                        /\ Goto("copytree")
                   ELSE /\ UNCHANGED tmpfs_layers
                        /\ Abort("mount_tmpfs")
       ELSE /\ work_dir' = KernelDir
            /\ Goto("redirect")
            /\ UNCHANGED <<log, tmpfs_layers>>
    /\ UNCHANGED <<outside, flags, environ, linux_symlink, published, boot_mounted, boot_efi>>

Copytree ==
    /\ pc = "copytree"
    /\ log' = Append(log, Ev("copytree", KernelDir, work_dir))
    /\ \E ok \in Outcomes :
        IF ok /\ ScratchState = "absent"
        THEN /\ tmpfs_layers' = SetScratch("full")
             /\ Goto("redirect")
        ELSE /\ \E s \in AfterFailedWrite(ScratchState) : tmpfs_layers' = SetScratch(s)
             /\ Abort("copytree")
    /\ UNCHANGED <<outside, flags, environ, linux_symlink, published, boot_mounted, boot_efi, work_dir>>

(* main, lines 502-508: /usr/src/linux is pointed at the work directory *)
Redirect ==
    /\ pc = "redirect"
    /\ linux_symlink' = Relink(linux_symlink, RedirectTarget)
    /\ log' = Append(log, Ev("symlink_to", LinuxSymlinkPath, RedirectTarget))
    /\ Goto("make")
    /\ UNCHANGED <<outside, flags, environ, tmpfs_layers, published, boot_mounted, boot_efi, work_dir>>

----------------------------------------------------------------------------
(* compile_kernel, lines 110-159: the build stages *)

InitramfsPath == LocalSrcDir \o "/initramfs/initramfs-myhost.cpio"

\* a subprocess.run(..., check=True) inside try/except Exception/sys.exit(1)
RunStage(at, op, src, dst, next) ==
    /\ log' = Append(log, Ev(op, src, dst))
    /\ \E ok \in Outcomes : IF ok THEN Goto(next) ELSE Abort(at)
    /\ UNCHANGED <<outside, flags, environ, linux_symlink, tmpfs_layers, published,
                   boot_mounted, boot_efi, work_dir>>

Make ==
    /\ pc = "make"
    /\ RunStage("make", "make", work_dir, "", "modules_install")

ModulesInstall ==
    /\ pc = "modules_install"
    /\ RunStage("modules_install", "modules_install", work_dir, "", AfterModulesInstall)

CheckDracut ==
    /\ pc = "check_dracut"
    /\ IF check_for_executable("dracut") THEN Goto("dracut") ELSE Abort("dracut_missing")
    /\ UNCHANGED <<outside, flags, environ, linux_symlink, tmpfs_layers, published,
                   boot_mounted, boot_efi, work_dir, log>>

Dracut ==
    /\ pc = "dracut"
    /\ RunStage("dracut", "dracut", Kver, InitramfsPath, AfterDracut)

MakeAgain ==
    /\ pc = "make_again"
    /\ RunStage("make_again", "make", work_dir, "", "publish")

----------------------------------------------------------------------------
(* compile_kernel, lines 161-178, and sign_efi: the image is published *)

\* a write of content c to the output file: on failure the file may be left
\* as it was or half written
WriteOutput(op, c, next) ==
    /\ log' = Append(log, Ev(op, BzImagePath(work_dir), OutputFilePath(is_uki)))
    /\ \E ok \in Outcomes :
        IF ok
        THEN /\ published' = [published EXCEPT ![OutputFilePath(is_uki)] = c]
             /\ Goto(next)
        ELSE /\ \E r \in AfterFailedWrite(published[OutputFilePath(is_uki)]) :
                    published' = [published EXCEPT ![OutputFilePath(is_uki)] = r]
             /\ Abort(op)

PublishCopy ==
    /\ pc = "publish"
    /\ ~PublishWithSigner
    /\ WriteOutput("copyfile", "bzImage", AfterPublish)
    /\ UNCHANGED <<outside, flags, environ, linux_symlink, tmpfs_layers, boot_mounted,
                   boot_efi, work_dir>>

\* compile_kernel, line 169: the call of sign_efi
PublishSign ==
    /\ pc = "publish"
    /\ PublishWithSigner
    /\ log' = Append(log, Ev("sign_efi", BzImagePath(work_dir), OutputFilePath(is_uki)))
    /\ Goto("sign_check")
    /\ UNCHANGED <<outside, flags, environ, linux_symlink, tmpfs_layers, published,
                   boot_mounted, boot_efi, work_dir>>

\* sign_efi, lines 215-239: the first precondition that does not hold, if any
SignPreconditionErrorCrtFirst ==
    IF ~check_for_executable("sbsign") THEN "sbsign_missing"
    ELSE IF ~CrtPresent THEN "crt_missing"
    ELSE IF ~KeyPresent THEN "key_missing"
    ELSE "none"

SignPreconditionError ==
    IF ~check_for_executable("sbsign") THEN "sbsign_missing"
    ELSE IF ~KeyPresent THEN "key_missing"
    ELSE IF ~CrtPresent THEN "crt_missing"
    ELSE "none"

SignCheck ==
    /\ pc = "sign_check"
    /\ IF SignPreconditionError = "none"
       THEN Goto("sbsign")
       ELSE Abort(SignPreconditionError)
    /\ UNCHANGED <<outside, flags, environ, linux_symlink, tmpfs_layers, published,
                   boot_mounted, boot_efi, work_dir, log>>

\* sign_efi, lines 241-252
Sbsign ==
    /\ pc = "sbsign"
    /\ WriteOutput("sbsign", "signed", AfterPublish)
    /\ UNCHANGED <<outside, flags, environ, linux_symlink, tmpfs_layers, boot_mounted,
                   boot_efi, work_dir>>

\* compile_kernel, lines 180-192
Emerge ==
    /\ pc = "emerge"
    /\ RunStage("emerge", "emerge", "", "", "restore")

----------------------------------------------------------------------------
(* main, lines 515-550: the pointer is restored, the work directory removed *)

Restore ==
    /\ pc = "restore"
    /\ linux_symlink' = Relink(linux_symlink, RestoreTarget)
    /\ log' = Append(log, Ev("symlink_to", LinuxSymlinkPath, RestoreTarget))
    /\ Goto(AfterRestore)
    /\ UNCHANGED <<outside, flags, environ, tmpfs_layers, published, boot_mounted, boot_efi, work_dir>>

Rmtree ==
    /\ pc = "rmtree"
    /\ log' = Append(log, Ev("rmtree", "", work_dir))
    /\ \E ok \in Outcomes :
        IF ok
        THEN /\ tmpfs_layers' = SetScratch("absent")
             /\ Goto("umount")
        ELSE /\ \E s \in AfterFailedWrite(ScratchState) : tmpfs_layers' = SetScratch(s)
             /\ Abort("rmtree")
    /\ UNCHANGED <<outside, flags, environ, linux_symlink, published, boot_mounted, boot_efi, work_dir>>

Umount ==
    /\ pc = "umount"
    /\ log' = Append(log, Ev("umount", "", TmpfsDir))
    /\ \E ok \in Outcomes :
        IF ok
        THEN /\ tmpfs_layers' = SubSeq(tmpfs_layers, 1, Len(tmpfs_layers) - 1)
             /\ Goto("check_install")
        ELSE /\ UNCHANGED tmpfs_layers
             /\ Abort("umount")
    /\ UNCHANGED <<outside, flags, environ, linux_symlink, published, boot_mounted, boot_efi, work_dir>>

\* main, lines 552-553, and the return of main
CheckInstall ==
    /\ pc = "check_install"
    /\ IF install
       THEN Goto("mount_boot")
       ELSE /\ pc' = "done"
            /\ exit_status' = "0"
            /\ UNCHANGED failed
    /\ UNCHANGED <<outside, flags, environ, linux_symlink, tmpfs_layers, published,
                   boot_mounted, boot_efi, work_dir, log>>

----------------------------------------------------------------------------
(* install_kernel, lines 272-316; efi_path is compile_kernel's return value *)

MountBoot ==
    /\ pc = "mount_boot"
    /\ log' = Append(log, Ev("mount", "", BootDir))
    /\ \E ok \in Outcomes :
        IF ok
        THEN /\ boot_mounted' = TRUE
             /\ Goto("copy_boot")
        ELSE /\ UNCHANGED boot_mounted
             /\ Abort("mount_boot")
    /\ UNCHANGED <<outside, flags, environ, linux_symlink, tmpfs_layers, published, boot_efi, work_dir>>

CopyBoot ==
    /\ pc = "copy_boot"
    /\ log' = Append(log, Ev("copyfile", OutputFilePath(is_uki), BootEfiPath))
    /\ \E ok \in Outcomes :
        IF ok
        THEN /\ boot_efi' = published[OutputFilePath(is_uki)]
             /\ Goto("umount_boot")
        ELSE /\ boot_efi' \in AfterFailedWrite(boot_efi)
             /\ Abort("copy_boot")
    /\ UNCHANGED <<outside, flags, environ, linux_symlink, tmpfs_layers, published,
                   boot_mounted, work_dir>>

UmountBoot ==
    /\ pc = "umount_boot"
    /\ log' = Append(log, Ev("umount", "", BootDir))
    /\ \E ok \in Outcomes :
        IF ok
        THEN /\ boot_mounted' = FALSE
             /\ pc' = "done"
             /\ exit_status' = "0"
             /\ UNCHANGED failed
        ELSE /\ UNCHANGED boot_mounted
             /\ Abort("umount_boot")
    /\ UNCHANGED <<outside, flags, environ, linux_symlink, tmpfs_layers, published, boot_efi, work_dir>>

----------------------------------------------------------------------------

Next ==
    \/ Prepare
    \/ Copytree
    \/ Redirect
    \/ Make
    \/ ModulesInstall
    \/ CheckDracut
    \/ Dracut
    \/ MakeAgain
    \/ PublishCopy
    \/ PublishSign
    \/ SignCheck
    \/ Sbsign
    \/ Emerge
    \/ Restore
    \/ Rmtree
    \/ Umount
    \/ CheckInstall
    \/ MountBoot
    \/ CopyBoot
    \/ UmountBoot

Spec == Init /\ [][Next]_vars

\* the process runs to its end: no step waits on another process
FairSpec == Spec /\ WF_vars(Next)

----------------------------------------------------------------------------
(* Type invariant *)

TypeOK ==
    /\ pc \in {"prepare", "copytree", "redirect", "make", "modules_install",
               "check_dracut", "dracut", "make_again", "publish", "sign_check",
               "sbsign", "emerge", "restore", "rmtree", "umount", "check_install",
               "mount_boot", "copy_boot", "umount_boot", "done"}
    /\ exit_status \in {"running", "0", "1"}
    /\ (pc = "done") = (exit_status # "running")
    /\ work_dir \in {"unset", KernelDir, KernelTmpfsDir}
    /\ Len(tmpfs_layers) <= 2

----------------------------------------------------------------------------
(* What a run has done, read from the log *)

Last(q) == q[Len(q)]

IsPublishWrite(e) == e.op \in {"copyfile", "sbsign"} /\ e.dst = OutputFilePath(is_uki)
IsRawCopy(e) == e.op = "copyfile" /\ e.dst = OutputFilePath(is_uki)
IsSymlink(e) == e.op = "symlink_to"
IsCompile(e) == e.op = "make"
IsBuildStage(e) == e.op \in {"make", "modules_install", "dracut"}

Indices(P(_)) == {i \in 1..Len(log) : P(log[i])}
Min(S) == CHOOSE x \in S : \A y \in S : x <= y
Max(S) == CHOOSE x \in S : \A y \in S : x >= y

SymlinkEvents == SelectSeq(log, IsSymlink)
BuildEvents == SelectSeq(log, IsBuildStage)
BuildOps == [i \in 1..Len(BuildEvents) |-> BuildEvents[i].op]

IsPrefix(a, b) == Len(a) <= Len(b) /\ \A i \in 1..Len(a) : a[i] = b[i]

WorkspaceFailures == {"mount_tmpfs", "copytree"}
BuildFailures == {"make", "modules_install", "dracut_missing", "dracut", "make_again"}
PreconditionFailures == {"sbsign_missing", "key_missing", "crt_missing"}
PublishFailures == PreconditionFailures \cup {"sbsign", "copyfile"}
InstallFailures == {"mount_boot", "copy_boot"}
CleanupFailures == {"rmtree", "umount", "umount_boot"}
ToolFailures == {"make", "modules_install", "dracut", "make_again", "sbsign"}

Terminated == pc = "done"

\* every build stage of the run has succeeded
BuildSucceeded ==
    \/ pc \in {"publish", "sign_check", "sbsign", "emerge", "restore", "rmtree",
               "umount", "check_install", "mount_boot", "copy_boot", "umount_boot"}
    \/ Terminated /\ failed \notin (WorkspaceFailures \cup BuildFailures)

\* the publish step (compile_kernel, line 168) has been executed
PublishStepTaken == BuildSucceeded /\ pc # "publish"

----------------------------------------------------------------------------
(* C1: in every run in which /usr/src/linux was redirected to the work
   directory, the link references the canonical kernel source directory by
   the time the process terminates, also when a stage failed. *)
C1_RestoredAtExit ==
    (Terminated /\ Invoked("symlink_to")) => linux_symlink = KernelDir

(* C2: in every scratch-mode run in which the scratch parent was mounted,
   the scratch work directory is deleted and the unmount of the scratch
   parent is attempted before the process terminates, whatever stage
   failed. *)
MountedByRun ==
    \E i \in 1..Len(log) : log[i] = Ev("mount", "", TmpfsDir) /\ failed # "mount_tmpfs"

C2_TeardownAtExit ==
    (Terminated /\ use_tmpfs /\ MountedByRun) =>
        /\ Invoked("rmtree")
        /\ \E i \in 1..Len(log) : log[i] = Ev("umount", "", TmpfsDir)

(* C3: /usr/src/linux never references a scratch work directory the run has
   deleted: the recursive delete of the scratch work directory happens only
   after the link was restored to the canonical directory. *)
C3_RestoreBeforeDelete ==
    Invoked("rmtree") =>
        /\ linux_symlink = KernelDir
        /\ \E i \in Indices(IsSymlink) :
              /\ log[i].dst = KernelDir
              /\ i < Min({j \in 1..Len(log) : log[j].op = "rmtree"})

C3_Witness ==
    /\ use_tmpfs
    /\ Invoked("rmtree")
    /\ ScratchState = "absent"
    /\ linux_symlink = KernelDir

(* C4: in a run where every stage succeeds the link is written exactly
   twice: once to the work directory before the first compile, once to the
   canonical directory after the image was published. *)
C4_TwoPointerWrites ==
    exit_status = "0" =>
        /\ Len(SymlinkEvents) = 2
        /\ SymlinkEvents[1].dst = work_dir
        /\ SymlinkEvents[2].dst = KernelDir
        /\ Min(Indices(IsSymlink)) < Min(Indices(IsCompile))
        /\ Max(Indices(IsPublishWrite)) < Max(Indices(IsSymlink))

C4_Witness ==
    /\ exit_status = "0"
    /\ use_tmpfs
    /\ sign_kernel
    /\ Len(SymlinkEvents) = 2

(* C5: from the first compile until publishing has finished /usr/src/linux
   points at the work directory, which is the scratch directory in scratch
   mode and the canonical directory otherwise. *)
ActiveBuild ==
    pc \in {"make", "modules_install", "check_dracut", "dracut", "make_again",
            "publish", "sign_check", "sbsign"}

C5_PointerDuringBuild ==
    ActiveBuild =>
        /\ linux_symlink = work_dir
        /\ work_dir = IF use_tmpfs THEN KernelTmpfsDir ELSE KernelDir

C5_Witness ==
    /\ pc = "sbsign"
    /\ use_tmpfs
    /\ linux_symlink = KernelTmpfsDir

(* C6: the build stages run in the order compile, module-install without
   the unified-image flag and compile, module-install, initramfs-build,
   compile with it; no other order occurs. *)
ExpectedBuildOps ==
    IF is_uki THEN <<"make", "modules_install", "dracut", "make">>
              ELSE <<"make", "modules_install">>

C6_BuildStageOrder ==
    /\ IsPrefix(BuildOps, ExpectedBuildOps)
    /\ BuildSucceeded => BuildOps = ExpectedBuildOps

C6_Witness ==
    /\ exit_status = "0"
    /\ is_uki
    /\ Cardinality(Indices(IsCompile)) = 2

(* C7: once an external tool (make, make modules_install, dracut, sbsign)
   exits non-zero the process has exited with status 1, the failed
   invocation is the last thing the run did, and nothing is invoked
   afterwards. *)
ToolOfFailure(f) == IF f = "make_again" THEN "make" ELSE f

C7_FailFastState ==
    failed \in ToolFailures =>
        /\ Terminated
        /\ exit_status = "1"
        /\ Last(log).op = ToolOfFailure(failed)

C7_FailFast == [](C7_FailFastState) /\ [][failed \notin ToolFailures]_vars

C7_Witness ==
    /\ failed = "dracut"
    /\ Terminated
    /\ Last(log).op = "dracut"

(* C8: the exit code is 0 exactly when every requested stage succeeded
   (workspace preparation, the build stages, publishing, and installation
   when requested), and 1 otherwise. *)
RequestedStagesSucceeded ==
    /\ failed \notin (WorkspaceFailures \cup BuildFailures \cup PublishFailures
                      \cup InstallFailures \cup {"emerge"})
    /\ \E i \in 1..Len(log) : IsPublishWrite(log[i])
    /\ install => \E i \in 1..Len(log) :
                      log[i].op = "copyfile" /\ log[i].dst = BootEfiPath

C8_ExitCode ==
    Terminated => ((exit_status = "0") <=> RequestedStagesSucceeded)

(* C9: in a run that reaches the publish step with the sign flag set the
   signer is called with the work directory's bzImage and the output path
   and no raw copy is made; without the flag a raw copy is made and the
   signer is never called. *)
C9_SignIffFlag ==
    /\ (Invoked("sign_efi") \/ Invoked("sbsign")) => sign_kernel
    /\ PublishStepTaken =>
         IF sign_kernel
         THEN /\ \E i \in 1..Len(log) :
                    log[i] = Ev("sign_efi", BzImagePath(work_dir), OutputFilePath(is_uki))
              /\ \A i \in 1..Len(log) : ~IsRawCopy(log[i])
              /\ \A i \in 1..Len(log) : log[i].op = "sbsign" =>
                    log[i] = Ev("sbsign", BzImagePath(work_dir), OutputFilePath(is_uki))
              /\ (pc \notin {"sign_check", "sbsign"} /\ failed \notin PreconditionFailures)
                    => Invoked("sbsign")
         ELSE /\ \E i \in 1..Len(log) :
                    log[i] = Ev("copyfile", BzImagePath(work_dir), OutputFilePath(is_uki))
              /\ ~Invoked("sign_efi")
              /\ ~Invoked("sbsign")

C9_Witness ==
    /\ exit_status = "0"
    /\ sign_kernel
    /\ use_tmpfs
    /\ Invoked("sbsign")
    /\ published[OutputFilePath(is_uki)] = "signed"

(* C10: with the sign flag set and sbsign not on the search path, or db.key
   or db.crt absent, the run ends with status 1, at the signer with a
   precondition error; sbsign is never invoked and nothing is written at
   the output path. *)
SigningImpossible ==
    \/ \A i \in 1..Len(path_dirs) : "sbsign" \notin path_dirs[i]
    \/ "db.key" \notin key_files
    \/ "db.crt" \notin key_files

C10_SignPreconditions ==
    (sign_kernel /\ SigningImpossible) =>
        /\ ~Invoked("sbsign")
        /\ \A i \in 1..Len(log) : ~IsPublishWrite(log[i])
        /\ published[OutputFilePath(is_uki)] \in {"absent", "old"}
        /\ exit_status # "0"
        /\ (Terminated /\ Invoked("sign_efi")) => failed \in PreconditionFailures
        /\ Terminated => failed \in (WorkspaceFailures \cup BuildFailures
                                     \cup PreconditionFailures)

C10_Witness ==
    /\ Terminated
    /\ sign_kernel
    /\ failed = "crt_missing"
    /\ check_for_executable("sbsign")
    /\ exit_status = "1"

----------------------------------------------------------------------------
(* C11: the Signer reports one of three distinct fatal precondition errors,
   tool missing, key missing, certificate missing; whatever combination is
   missing, exactly one is reported, chosen in the order tool, key,
   certificate. *)
SbsignOnPath == \E i \in 1..Len(path_dirs) : "sbsign" \in path_dirs[i]

ExpectedSignerError ==
    IF ~SbsignOnPath THEN "sbsign_missing"
    ELSE IF "db.key" \notin key_files THEN "key_missing"
    ELSE "crt_missing"

SignerLeft == Invoked("sign_efi") /\ pc # "sign_check"

C11_SignerErrors ==
    /\ (SignerLeft /\ SigningImpossible) =>
          /\ failed = ExpectedSignerError
          /\ Terminated
          /\ exit_status = "1"
    /\ (SignerLeft /\ ~SigningImpossible) => failed \notin PreconditionFailures

C11_Witness ==
    /\ SignerLeft
    /\ SbsignOnPath
    /\ key_files = {}
    /\ failed = "key_missing"

(* C12: with a unified image requested and dracut not on the search path
   the run ends with status 1, at the dracut check with the dracut error;
   dracut is never invoked and the second compile never runs. *)
DracutOnPath == \E i \in 1..Len(path_dirs) : "dracut" \in path_dirs[i]

C12_DracutMissing ==
    (is_uki /\ ~DracutOnPath) =>
        /\ ~Invoked("dracut")
        /\ Cardinality(Indices(IsCompile)) <= 1
        /\ pc \notin {"dracut", "make_again", "publish"}
        /\ exit_status # "0"
        /\ (Terminated /\ Invoked("modules_install") /\ failed # "modules_install")
              => failed = "dracut_missing"

C12_Witness ==
    /\ is_uki
    /\ ~DracutOnPath
    /\ Terminated
    /\ failed = "dracut_missing"
    /\ exit_status = "1"

(* C13: the availability checks for dracut and sbsign happen before
   /usr/src/linux is redirected and before the first compile. *)
C13_LocatorFirst ==
    pc \in {"check_dracut", "sign_check"} =>
        /\ ~Invoked("symlink_to")
        /\ ~Invoked("make")

(* C14: the output path is <source root>/uki/vmlinuz-<kver>.efi with the
   unified flag and <source root>/vmlinuz/vmlinuz-<kver>.efi without it,
   whatever the sign, scratch and install flags; the image read is always
   arch/x86/boot/bzImage inside the work directory. *)
ExpectedOutputPath ==
    IF is_uki THEN "/usr/local/src/myhost/uki/vmlinuz-6.9.1-myhost-1.2.3.efi"
              ELSE "/usr/local/src/myhost/vmlinuz/vmlinuz-6.9.1-myhost-1.2.3.efi"

ExpectedImagePath ==
    IF use_tmpfs THEN "/var/tmp/linux/myhost/linux-6.9.1/arch/x86/boot/bzImage"
                 ELSE "/usr/local/src/myhost/linux/linux-6.9.1/arch/x86/boot/bzImage"

IsPublishEvent(e) ==
    \/ e.op \in {"sign_efi", "sbsign"}
    \/ e.op = "copyfile" /\ e.dst # BootEfiPath

C14_OutputPath ==
    /\ \A i \in 1..Len(log) : IsPublishEvent(log[i]) =>
          /\ log[i].dst = ExpectedOutputPath
          /\ log[i].src = ExpectedImagePath
    /\ \A p \in OutputPaths : p # ExpectedOutputPath => published[p] \in {"absent", "old"}
    /\ PublishStepTaken => \E i \in 1..Len(log) : IsPublishEvent(log[i])

C14_Witness ==
    /\ is_uki
    /\ sign_kernel
    /\ use_tmpfs
    /\ install
    /\ published["/usr/local/src/myhost/uki/vmlinuz-6.9.1-myhost-1.2.3.efi"] = "signed"

(* C15: no half-written artifact is ever visible under its final name, also
   when the copy fails midway. *)
C15_NoPartialArtifact ==
    \A p \in OutputPaths : published[p] # "partial"

(* C16: in every install_kernel run in which the mount of /boot succeeded
   an unmount of /boot is attempted before the process terminates, even if
   the copy failed. *)
BootMountSucceeded ==
    /\ \E i \in 1..Len(log) : log[i] = Ev("mount", "", BootDir)
    /\ failed # "mount_boot"

C16_UnmountAfterInstall ==
    (Terminated /\ BootMountSucceeded) =>
        \E i \in 1..Len(log) : log[i] = Ev("umount", "", BootDir)

(* C17: install_kernel is entered only with the install flag set and only
   after publishing, the restore of /usr/src/linux and the teardown have
   completed, never after an earlier failure; it copies the artifact
   published in the same run. *)
InstallerEntered ==
    \/ pc \in {"mount_boot", "copy_boot", "umount_boot"}
    \/ \E i \in 1..Len(log) : log[i] = Ev("mount", "", BootDir)

C17_InstallerLast ==
    /\ InstallerEntered =>
          /\ install
          /\ failed \in {"none", "mount_boot", "copy_boot", "umount_boot"}
          /\ published[ExpectedOutputPath] \in {"bzImage", "signed"}
          /\ \E i \in 1..Len(log) : IsPublishWrite(log[i])
          /\ Len(SymlinkEvents) = 2
          /\ linux_symlink = KernelDir
          /\ use_tmpfs =>
                /\ Invoked("rmtree")
                /\ \E i \in 1..Len(log) : log[i] = Ev("umount", "", TmpfsDir)
          /\ \A i \in 1..Len(log) : log[i].dst = BootEfiPath =>
                log[i] = Ev("copyfile", ExpectedOutputPath, BootEfiPath)
    /\ pc = "umount_boot" => boot_efi = published[ExpectedOutputPath]
    /\ (Terminated /\ failed \notin {"none", "mount_boot", "copy_boot", "umount_boot"})
          => ~InstallerEntered

C17_Witness ==
    /\ exit_status = "0"
    /\ install
    /\ use_tmpfs
    /\ boot_efi = "signed"
    /\ Invoked("rmtree")

(* C18: when every build and publish stage succeeded, a failure of the
   scratch delete, of the unmount of the scratch parent or of the unmount of
   /boot does not end the run with status 1. *)
C18_CleanupNonFatal ==
    failed \in CleanupFailures => exit_status # "1"

(* C19: without scratch mode the work directory is the canonical directory,
   nothing is mounted, copied, deleted or unmounted at a scratch location,
   and /usr/src/linux is only ever set to the canonical directory. *)
TouchesScratch(e) ==
    \/ e.op \in {"copytree", "rmtree"}
    \/ e.dst \in {TmpfsDir, KernelTmpfsDir}
    \/ e.src \in {TmpfsDir, KernelTmpfsDir}

C19_InPlace ==
    ~use_tmpfs =>
        /\ work_dir \in {"unset", KernelDir}
        /\ pc \notin {"copytree", "rmtree", "umount"}
        /\ \A i \in 1..Len(log) : ~TouchesScratch(log[i])
        /\ \A i \in 1..Len(log) : IsSymlink(log[i]) => log[i].dst = KernelDir
        /\ Invoked("symlink_to") => linux_symlink = KernelDir

C19_Witness ==
    /\ ~use_tmpfs
    /\ install
    /\ exit_status = "0"
    /\ Len(SymlinkEvents) = 2
    /\ work_dir = KernelDir

(* C20: in scratch mode the scratch directory holds a full copy of the
   source tree after a successful prepare; after teardown it no longer
   exists and the scratch parent is unmounted; the canonical tree is
   untouched. *)
PrepareSucceeded ==
    use_tmpfs /\ Invoked("copytree") /\ failed # "copytree"

TeardownSucceeded ==
    /\ use_tmpfs
    /\ \E i \in 1..Len(log) : log[i] = Ev("umount", "", TmpfsDir)
    /\ failed # "umount"

C20_ScratchLifecycle ==
    /\ (PrepareSucceeded /\ ~Invoked("rmtree")) => ScratchState = "full"
    /\ TeardownSucceeded => (ScratchState = "absent" /\ Len(tmpfs_layers) = 0)
    /\ \A i \in 1..Len(log) : log[i].op \in {"copytree", "rmtree"} => log[i].dst # KernelDir

----------------------------------------------------------------------------
(* C21: the scratch parent is mounted only if it is not mounted already: a
   scratch-mode run that starts with it mounted issues no mount and goes on
   to copy the source tree. *)
C21_MountOnlyIfUnmounted ==
    [][(pc = "prepare" /\ use_tmpfs /\ Len(tmpfs_layers) > 0)
          => (log' = log /\ pc' = "copytree")]_vars

(* C22: the only directory the run deletes recursively is the scratch work
   directory, and only in scratch mode; the canonical tree is never
   deleted. *)
C22_OnlyScratchDeleted ==
    /\ pc = "rmtree" => (use_tmpfs /\ work_dir = "/var/tmp/linux/myhost/linux-6.9.1")
    /\ \A i \in 1..Len(log) : log[i].op = "rmtree" =>
          /\ use_tmpfs
          /\ log[i].dst = "/var/tmp/linux/myhost/linux-6.9.1"
          /\ log[i].dst # KernelDir

C22_Witness ==
    /\ use_tmpfs
    /\ Invoked("rmtree")
    /\ exit_status = "0"

(* C25: when the mount of the scratch parent or the copy of the source tree
   fails the run ends with status 1 before /usr/src/linux is redirected and
   before any build stage; a completed mount and a partial copy are left as
   they are. *)
C25_PrepareFailure ==
    failed \in WorkspaceFailures =>
        /\ Terminated
        /\ exit_status = "1"
        /\ ~Invoked("symlink_to")
        /\ Len(BuildEvents) = 0
        /\ ~Invoked("rmtree")
        /\ ~Invoked("umount")
        /\ failed = "copytree" =>
              /\ Len(tmpfs_layers) >= 1
              /\ ScratchState \in {"absent", "partial"}

C25_Witness ==
    /\ failed = "copytree"
    /\ ScratchState = "partial"
    /\ Len(tmpfs_layers) = 1
    /\ Terminated

(* C29: in scratch mode the image is read from the scratch work directory
   while that directory still exists: the publish step precedes the
   recursive delete, and the artifact installed is the copy under the
   source root, never a path inside the scratch directory. *)
C29_PublishBeforeDelete ==
    use_tmpfs =>
        /\ pc \in {"publish", "sbsign"} => (ScratchState = "full" /\ ~Invoked("rmtree"))
        /\ \A i \in 1..Len(log) : IsPublishWrite(log[i]) =>
              /\ log[i].src = "/var/tmp/linux/myhost/linux-6.9.1/arch/x86/boot/bzImage"
              /\ \A j \in 1..Len(log) : log[j].op = "rmtree" => i < j
        /\ \A i \in 1..Len(log) : log[i].dst = BootEfiPath =>
              /\ log[i].src = OutputFilePath(is_uki)
              /\ log[i].src \in DOMAIN published
        /\ Invoked("rmtree") => \E i \in 1..Len(log) : IsPublishWrite(log[i])

C29_Witness ==
    /\ use_tmpfs
    /\ install
    /\ exit_status = "0"
    /\ Invoked("rmtree")
    /\ boot_efi = "bzImage"

----------------------------------------------------------------------------
(* main, lines 502-519 on their own: the two places that rewrite
   /usr/src/linux, applied in any order to any state of the link *)

MaxLinkOps == 4

\* what /usr/src/linux can point at before a run, existing or not
LinkTargets == {KernelDir, KernelTmpfsDir, OtherKernelDir, "/usr/src/linux-gone"}

\* the two values work_dir takes at lines 490 and 500
WorkDirs == {KernelDir, KernelTmpfsDir}

LinkInit ==
    /\ linux_symlink \in {"absent"} \cup LinkTargets
    /\ pc = "link"
    /\ log = <<>>
    /\ failed = "none"
    /\ exit_status = "running"
    /\ path_dirs = <<>>
    /\ PipelineUnused
    /\ BackupUnused
    /\ UpdateUnused
    /\ SelectUnused
    /\ LocatorUnused
    /\ PruneUnused

\* lines 505-508 with work_dir = wd
RedirectOp ==
    /\ Len(log) < MaxLinkOps
    /\ \E wd \in WorkDirs :
          /\ linux_symlink' = Relink(linux_symlink, wd)
          /\ log' = Append(log, Ev("redirect", LinuxSymlinkPath, wd))
    /\ UNCHANGED <<outside, flags, environ, tmpfs_layers, published, boot_mounted,
                   boot_efi, work_dir, pc, failed, exit_status>>

\* lines 516-519
RestoreOp ==
    /\ Len(log) < MaxLinkOps
    /\ linux_symlink' = Relink(linux_symlink, RestoreTarget)
    /\ log' = Append(log, Ev("restore", LinuxSymlinkPath, RestoreTarget))
    /\ UNCHANGED <<outside, flags, environ, tmpfs_layers, published, boot_mounted,
                   boot_efi, work_dir, pc, failed, exit_status>>

LinkNext == RedirectOp \/ RestoreOp

LinkSpec == LinkInit /\ [][LinkNext]_vars

\* C23: whatever /usr/src/linux was before and however many redirects were
\* made, once a redirect has been followed by a restore as the latest
\* operation the link points at the canonical tree, and one more restore
\* leaves the link as it is.
C23_RedirectRestore ==
    /\ [](\A i \in 1..Len(log) :
             (/\ log[i].op = "redirect"
              /\ i < Len(log)
              /\ log[Len(log)].op = "restore")
                => linux_symlink = "/usr/local/src/myhost/linux/linux-6.9.1")
    /\ [][(/\ log # <<>>
           /\ log[Len(log)].op = "restore"
           /\ Len(log') = Len(log) + 1
           /\ log'[Len(log')].op = "restore")
             => linux_symlink' = linux_symlink]_vars

C23_Witness ==
    /\ Len(log) = 3
    /\ log[1].op = "redirect"
    /\ log[1].dst = "/var/tmp/linux/myhost/linux-6.9.1"
    /\ log[2].op = "restore"
    /\ log[3].op = "restore"
    /\ linux_symlink = "/usr/local/src/myhost/linux/linux-6.9.1"

----------------------------------------------------------------------------
(* main, lines 425-464: the selection loop and the derivation of kver.
   A string is a sequence of tokens; every character the code searches
   for (the quote, "=", "-", white space) is a token of its own, and so
   are "linux-" and "CONFIG_LOCALVERSION". *)

MaxKernels == 2
MaxAttempts == 3

\* the directories under local_src_dir/linux, as line 417 sorts them
KernelNames == << <<"linux-", "6.9.1">>, <<"linux-", "6.8.9">>,
                  <<"linux-", "6.6.30">>, <<"linux-", "6.1.90">> >>

\* what the user can type at the prompt of line 427
TypedInputs == { <<>>, <<"x">>, <<"-", "1">>, <<"0">>, <<"1">>, <<"2">>, <<"3">>,
                 <<"4">>, <<" ", "2", "\n">>, <<"1", "0">> }

LocalversionLine == <<"CONFIG_LOCALVERSION", "=", "\"", "-", "myhost", "-", "1.2.3", "\"", "\n">>
LocalversionPlainLine == <<"CONFIG_LOCALVERSION", "=", "\"", "myhost", "-", "1", "\"", "\n">>
LocalversionEmptyLine == <<"CONFIG_LOCALVERSION", "=", "\"", "\"", "\n">>
LocalversionBareLine == <<"CONFIG_LOCALVERSION", "\n">>
LocalversionAutoLine == <<"CONFIG_LOCALVERSION", "_AUTO", "=", "y", "\n">>
ModulesLine == <<"CONFIG_MODULES", "=", "y", "\n">>

\* the contents kernel_dir/.config can have
ConfigFiles == { <<LocalversionLine>>,
                 <<ModulesLine, LocalversionLine>>,
                 <<LocalversionLine, LocalversionAutoLine>>,
                 <<LocalversionAutoLine, LocalversionLine>>,
                 <<LocalversionPlainLine, ModulesLine>>,
                 <<LocalversionEmptyLine>>,
                 <<LocalversionBareLine>>,
                 <<ModulesLine>> }

Digits == {"0", "1", "2", "3", "4", "5", "6", "7", "8", "9"}
Whitespace == {" ", "\n"}

DigitValue(d) ==
    CASE d = "0" -> 0 [] d = "1" -> 1 [] d = "2" -> 2 [] d = "3" -> 3
      [] d = "4" -> 4 [] d = "5" -> 5 [] d = "6" -> 6 [] d = "7" -> 7
      [] d = "8" -> 8 [] d = "9" -> 9

\* str.strip()
RECURSIVE StripLeft(_)
StripLeft(str) ==
    IF str # <<>> /\ Head(str) \in Whitespace THEN StripLeft(Tail(str)) ELSE str

RECURSIVE StripRight(_)
StripRight(str) ==
    IF str # <<>> /\ str[Len(str)] \in Whitespace
    THEN StripRight(SubSeq(str, 1, Len(str) - 1))
    ELSE str

Strip(str) == StripRight(StripLeft(str))

\* str.isdigit()
IsDigit(str) == str # <<>> /\ \A i \in 1..Len(str) : str[i] \in Digits

\* int(str) of a string of digits
RECURSIVE ToInt(_)
ToInt(str) ==
    IF str = <<>> THEN 0
    ELSE 10 * ToInt(SubSeq(str, 1, Len(str) - 1)) + DigitValue(str[Len(str)])

\* list[i] with Python's negative indices
PyIndex(list, i) == IF i >= 0 THEN list[i + 1] ELSE list[Len(list) + i + 1]

\* str.replace(tok, "")
RemoveAll(str, tok) ==
    LET Keep(t) == t # tok IN SelectSeq(str, Keep)

\* str.replace(tok, "", 1)
RemoveFirstAsAll(str, tok) == RemoveAll(str, tok)
RemoveFirst(str, tok) ==
    LET at == {i \in 1..Len(str) : str[i] = tok}
    IN  IF at = {} THEN str
        ELSE LET first == CHOOSE i \in at : \A j \in at : i <= j
             IN  SubSeq(str, 1, first - 1) \o SubSeq(str, first + 1, Len(str))

\* str.split("=")
RECURSIVE Split(_)
Split(str) ==
    LET at == {i \in 1..Len(str) : str[i] = "="}
    IN  IF at = {} THEN <<str>>
        ELSE LET first == CHOOSE i \in at : \A j \in at : i <= j
             IN  <<SubSeq(str, 1, first - 1)>>
                    \o Split(SubSeq(str, first + 1, Len(str)))

\* line.startswith("CONFIG_LOCALVERSION")
StartsWithLocalversion(line) == line # <<>> /\ Head(line) = "CONFIG_LOCALVERSION"

\* lines 457-461: local_version after the lines of the file have been
\* read in order, starting from value before; "unbound" while the name
\* has not been assigned, "IndexError" when line_list[1] does not exist
RECURSIVE ScanConfig(_, _)
ScanConfig(lines, before) ==
    IF lines = <<>> THEN before
    ELSE LET line == Head(lines)
             line_list == Split(line)
         IN  IF ~StartsWithLocalversion(line)
             THEN ScanConfig(Tail(lines), before)
             ELSE IF Len(line_list) < 2
                  THEN "IndexError"
                  ELSE ScanConfig(Tail(lines),
                           RemoveFirst(Strip(RemoveAll(line_list[2], "\"")), "-"))

SelectInit ==
    /\ \E n \in 1..MaxKernels : kernels = SubSeq(KernelNames, 1, n)
    /\ config_file \in ConfigFiles
    /\ selection = -1
    /\ linux_ver = <<>>
    /\ kver = <<>>
    /\ pc = "select"
    /\ log = <<>>
    /\ failed = "none"
    /\ exit_status = "running"
    /\ linux_symlink = "absent"
    /\ path_dirs = <<>>
    /\ PipelineUnused
    /\ BackupUnused
    /\ UpdateUnused
    /\ LocatorUnused
    /\ PruneUnused

\* lines 425-451: one turn of the loop; the turn that breaks goes on to
\* line 449
Select ==
    /\ pc = "select"
    /\ Len(log) < MaxAttempts
    /\ \E typed \in TypedInputs :
          LET stripped == Strip(typed)
          IN  /\ log' = Append(log, Ev("input", typed, stripped))
              /\ IF ~IsDigit(stripped)
                 THEN UNCHANGED <<selection, linux_ver, pc>>
                 ELSE /\ selection' = ToInt(stripped)
                      /\ IF ToInt(stripped) <= Len(kernels)
                         THEN /\ linux_ver' = PyIndex(kernels, ToInt(stripped) - 1)
                              /\ pc' = "read_config"
                         ELSE UNCHANGED <<linux_ver, pc>>
    /\ UNCHANGED <<restVars, locatorVars, pruneVars, flags, environ, linux_symlink, tmpfs_layers, published,
                   boot_mounted, boot_efi, work_dir, kernels, config_file, kver,
                   failed, exit_status>>

\* lines 450-464; an exception raised here is not caught and ends the
\* interpreter with status 1
ReadConfig ==
    /\ pc = "read_config"
    /\ LET linux_ver_num == RemoveAll(linux_ver, "linux-")
           local_version == ScanConfig(config_file, "unbound")
       IN  IF local_version = "IndexError" \/ local_version = "unbound"
           THEN /\ failed' = (IF local_version = "unbound" THEN "NameError"
                                                          ELSE "IndexError")
                /\ exit_status' = "1"
                /\ pc' = "done"
                /\ UNCHANGED kver
           ELSE /\ kver' = linux_ver_num \o <<"-">> \o local_version
                /\ pc' = "prepare"
                /\ UNCHANGED <<failed, exit_status>>
    /\ UNCHANGED <<restVars, locatorVars, pruneVars, flags, environ, linux_symlink, tmpfs_layers, published,
                   boot_mounted, boot_efi, work_dir, kernels, selection, config_file,
                   linux_ver, log>>

SelectNext == Select \/ ReadConfig

SelectSpec == SelectInit /\ [][SelectNext]_vars

\* the lines of a file that begin with CONFIG_LOCALVERSION
LocalversionLines(file) == {i \in 1..Len(file) : file[i][1] = "CONFIG_LOCALVERSION"}

\* the text of a line after its first "=", without quotes and white space
ValueOf(line) ==
    LET eq == Min({i \in 1..Len(line) : line[i] = "="})
        Kept(t) == t \notin {"\"", " ", "\n"}
    IN  SelectSeq(SubSeq(line, eq + 1, Len(line)), Kept)

\* value with its first hyphen taken out, if it has one
IsFirstHyphenRemoved(value, result) ==
    IF \A i \in 1..Len(value) : value[i] # "-"
    THEN result = value
    ELSE \E pre, post \in {SubSeq(value, a, b) : a \in 1..Len(value) + 1, b \in 0..Len(value)} :
            /\ value = pre \o <<"-">> \o post
            /\ \A i \in 1..Len(pre) : pre[i] # "-"
            /\ result = pre \o post

KeyOf(line) == Split(line)[1]

ExactKeyLines(file) ==
    LET IsKey(line) == KeyOf(line) = <<"CONFIG_LOCALVERSION">>
    IN  SelectSeq(file, IsKey)

\* C27: the derived version is the one the CONFIG_LOCALVERSION line alone
\* gives; lines of other keys that begin with the same text, before or
\* after it, do not change it.
C27_LocalversionKeyAlone ==
    (pc = "prepare" /\ ExactKeyLines(config_file) # <<>>)
       => kver = Tail(linux_ver) \o <<"-">>
                    \o ScanConfig(ExactKeyLines(config_file), "unbound")

\* C28: the loop is left only with a selection between 1 and the number of
\* listed kernels, and the directory chosen is the one listed under that
\* number.
C28_SelectionInRange ==
    pc # "select" =>
        /\ selection \in 1..Len(kernels)
        /\ linux_ver = kernels[selection]

----------------------------------------------------------------------------
(* check_for_executable, lines 63-85, called with any name under any PATH *)

\* the names a call can ask for
ProgramNames == OptionalTools \cup {"make"}

LocatorInit ==
    /\ \E n \in 1..NumPathDirs : path_dirs \in [1..n -> SUBSET ProgramNames]
    /\ query = ""
    /\ found = FALSE
    /\ pc = "locate"
    /\ log = <<>>
    /\ failed = "none"
    /\ exit_status = "running"
    /\ linux_symlink = "absent"
    /\ PipelineUnused
    /\ BackupUnused
    /\ UpdateUnused
    /\ SelectUnused
    /\ PruneUnused

Locate ==
    /\ pc = "locate"
    /\ \E name \in ProgramNames :
          /\ query' = name
          /\ found' = check_for_executable(name)
    /\ UNCHANGED <<restVars, selectVars, pruneVars, flags, environ, linux_symlink, tmpfs_layers, published,
                   boot_mounted, boot_efi, work_dir, pc, log, failed, exit_status>>

LocatorNext == Locate

LocatorSpec == LocatorInit /\ [][LocatorNext]_vars

\* C26: a call returns true exactly when some directory of PATH holds an
\* entry with the name asked for, and it changes neither the environment
\* nor anything on the file system.
C26_Locator ==
    /\ [](query # "" =>
            (found <=> \E i \in 1..Len(path_dirs) : query \in path_dirs[i]))
    /\ [][/\ environ' = environ
          /\ linux_symlink' = linux_symlink
          /\ tmpfs_layers' = tmpfs_layers
          /\ published' = published
          /\ boot_mounted' = boot_mounted
          /\ boot_efi' = boot_efi]_vars

C26_Witness ==
    /\ query = "sbsign"
    /\ found
    /\ Len(path_dirs) = 2
    /\ "sbsign" \notin path_dirs[1]
    /\ "sbsign" \in path_dirs[2]

----------------------------------------------------------------------------
(* clean_up_kernel_source_dirs.py, main, lines 252-289.
   An entry of a subdirectory is named by the characters of its version:
   linux/linux-6.10 is [dir |-> "linux", name |-> <<"6", ".", "1", "0">>].
   The entries of one subdirectory share what comes before the version, so
   their paths compare as their versions do. The entries of linux are
   directories, those of uki and vmlinuz are files. *)

MaxEntries == 4

\* line 86
prunable_dirs == {"linux", "uki", "vmlinuz"}

\* the versions an entry can carry
Versions == { <<"6", ".", "1">>, <<"6", ".", "8">>, <<"6", ".", "9">>,
              <<"6", ".", "1", "0">>, <<"6", ".", "1", "1">> }

\* what system_src_dir.iterdir() can yield
Listings == { <<"linux", "uki", "vmlinuz">>, <<"vmlinuz", "initramfs", "linux">>,
              <<"uki">>, <<"initramfs">> }

\* what the operator can type at the prompt of line 187
PromptInputs == { <<>>, <<"Y">>, <<"yes">>, <<" ", "y", "\n">>, <<"n">>, <<"NO">>,
                  <<"q">> }

\* ord() of the characters of a version
CharCode(c) ==
    CASE c = "-" -> 45 [] c = "." -> 46 [] c = "0" -> 48 [] c = "1" -> 49
      [] c = "2" -> 50 [] c = "3" -> 51 [] c = "4" -> 52 [] c = "5" -> 53
      [] c = "6" -> 54 [] c = "7" -> 55 [] c = "8" -> 56 [] c = "9" -> 57

\* a < b for two strings
RECURSIVE StrLess(_, _)
StrLess(a, b) ==
    IF a = <<>> THEN b # <<>>
    ELSE IF b = <<>> THEN FALSE
    ELSE IF Head(a) = Head(b) THEN StrLess(Tail(a), Tail(b))
    ELSE CharCode(Head(a)) < CharCode(Head(b))

\* line 99: sorted(temp_list, reverse=True)
RECURSIVE SortedDesc(_)
SortedDesc(names) ==
    IF names = {} THEN <<>>
    ELSE LET top == CHOOSE x \in names : \A y \in names \ {x} : StrLess(y, x)
         IN  <<top>> \o SortedDesc(names \ {top})

\* lines 89-102: the sorted list of each prunable subdirectory, in the
\* order of the listing
RECURSIVE AvailableDirs(_)
AvailableDirs(listing) ==
    IF listing = <<>> THEN <<>>
    ELSE LET sub_dir == Head(listing)
             Entry(i) == [dir |-> sub_dir, name |-> SortedDesc(dir_contents[sub_dir])[i]]
         IN  IF sub_dir \in prunable_dirs
             THEN << [i \in 1..Cardinality(dir_contents[sub_dir]) |-> Entry(i)] >>
                     \o AvailableDirs(Tail(listing))
             ELSE AvailableDirs(Tail(listing))

\* str.lower()
LowerToken(t) == CASE t = "Y" -> "y" [] t = "NO" -> "no" [] OTHER -> t
Lower(str) == [i \in 1..Len(str) |-> LowerToken(str[i])]

\* line 178
PathsToRemoveFromSecond(sub_list) == SubSeq(sub_list, 2, Len(sub_list))
PathsToRemove(sub_list) == SubSeq(sub_list, 3, Len(sub_list))

\* the paths of removal_list in the order prune_list visits them
RECURSIVE Flatten(_)
Flatten(lists) == IF lists = <<>> THEN <<>> ELSE Head(lists) \o Flatten(Tail(lists))

PruneInit ==
    /\ src_listing \in Listings
    /\ dir_contents \in [prunable_dirs -> {c \in SUBSET Versions : Cardinality(c) <= MaxEntries}]
    /\ \A d \in prunable_dirs :
          (\A i \in 1..Len(src_listing) : src_listing[i] # d) => dir_contents[d] = {}
    /\ sorted_contents = <<>>
    /\ removal_list = <<>>
    /\ prompt_idx = 0
    /\ prune_pos = 0
    /\ pc = "list"
    /\ log = <<>>
    /\ failed = "none"
    /\ exit_status = "running"
    /\ linux_symlink = "absent"
    /\ path_dirs = <<>>
    /\ PipelineUnused
    /\ BackupUnused
    /\ UpdateUnused
    /\ SelectUnused
    /\ LocatorUnused

\* main, lines 256-264, with create_prunable_list
CreatePrunableList ==
    /\ pc = "list"
    /\ IF AvailableDirs(src_listing) = <<>>
       THEN /\ Abort("nothing_prunable")
            /\ UNCHANGED <<sorted_contents, prompt_idx>>
       ELSE /\ sorted_contents' = AvailableDirs(src_listing)
            /\ prompt_idx' = 1
            /\ Goto("prompt")
    /\ UNCHANGED <<restVars, selectVars, locatorVars, flags, environ, linux_symlink, tmpfs_layers,
                   published, boot_mounted, boot_efi, work_dir, log, src_listing,
                   dir_contents, removal_list, prune_pos>>

\* main, lines 272-284: the step to the next sub_list and, after the last
\* one, the test of removal_list
NextSubList(removals) ==
    /\ prompt_idx' = prompt_idx + 1
    /\ IF prompt_idx < Len(sorted_contents)
       THEN Goto("prompt")
       ELSE IF removals = <<>>
            THEN /\ pc' = "done"
                 /\ exit_status' = "0"
                 /\ UNCHANGED failed
            ELSE Goto("prune")

\* removal_prompt, lines 144-198: one call up to its first prompt, or one
\* turn of its loop; sub_list[0] of an empty list raises IndexError, which
\* nothing catches
RemovalPrompt ==
    /\ pc = "prompt"
    /\ LET sub_list == sorted_contents[prompt_idx]
       IN  IF sub_list = <<>>
           THEN /\ Abort("IndexError")
                /\ UNCHANGED <<removal_list, prompt_idx, log, prune_pos>>
           ELSE LET path_name == sub_list[1].dir
                IN  IF Len(sub_list) <= 2
                    THEN /\ log' = Append(log, Ev("already_pruned", path_name, ""))
                         /\ NextSubList(removal_list)
                         /\ UNCHANGED <<removal_list, prune_pos>>
                    ELSE \E typed \in PromptInputs :
                            LET user_input == Lower(Strip(typed))
                            IN  IF user_input \in {<<>>, <<"y">>, <<"yes">>}
                                THEN /\ removal_list' = Append(removal_list, PathsToRemove(sub_list))
                                     /\ log' = Append(log, Ev("answer", path_name, "yes"))
                                     /\ NextSubList(removal_list')
                                     /\ prune_pos' = 1
                                ELSE IF user_input \in {<<"n">>, <<"no">>}
                                THEN /\ log' = Append(log, Ev("answer", path_name, "no"))
                                     /\ NextSubList(removal_list)
                                     /\ UNCHANGED <<removal_list, prune_pos>>
                                ELSE UNCHANGED <<removal_list, prompt_idx, log, prune_pos,
                                                 pc, failed, exit_status>>
    /\ UNCHANGED <<restVars, selectVars, locatorVars, flags, environ, linux_symlink, tmpfs_layers,
                   published, boot_mounted, boot_efi, work_dir, src_listing,
                   dir_contents, sorted_contents>>

\* prune_list, lines 217-231: one path; then main, lines 286-289
PruneStep ==
    /\ pc = "prune"
    /\ LET path == Flatten(removal_list)[prune_pos]
           op == IF path.dir = "linux" THEN "rmtree" ELSE "unlink"
       IN  /\ log' = Append(log, Ev(op, path, ""))
           /\ \E ok \in Outcomes :
                 IF ok
                 THEN /\ dir_contents' = [dir_contents EXCEPT ![path.dir] = @ \ {path.name}]
                      /\ prune_pos' = prune_pos + 1
                      /\ IF prune_pos < Len(Flatten(removal_list))
                         THEN Goto("prune")
                         ELSE /\ pc' = "done"
                              /\ exit_status' = "0"
                              /\ UNCHANGED failed
                 ELSE /\ Abort("prune")
                      /\ UNCHANGED <<dir_contents, prune_pos>>
    /\ UNCHANGED <<restVars, selectVars, locatorVars, flags, environ, linux_symlink, tmpfs_layers,
                   published, boot_mounted, boot_efi, work_dir, src_listing,
                   sorted_contents, removal_list, prompt_idx>>

PruneNext == CreatePrunableList \/ RemovalPrompt \/ PruneStep

PruneSpec == PruneInit /\ [][PruneNext]_vars

\* C30: an entry is removed from a prunable subdirectory only if at least
\* two entries of that subdirectory sort above it and the operator answered
\* yes for that subdirectory: the first two of the descending sort stay.
C30_KeepLatestTwo ==
    [][\A d \in prunable_dirs :
          \A v \in dir_contents[d] \ dir_contents'[d] :
             /\ Cardinality({w \in dir_contents[d] : StrLess(v, w)}) >= 2
             /\ \E i \in 1..Len(log) : log[i].op = "answer" /\ log[i].src = d
                                       /\ log[i].dst = "yes"]_vars

C30_Witness ==
    /\ pc = "done"
    /\ exit_status = "0"
    /\ \E i \in 1..Len(log) : log[i].op = "answer" /\ log[i].src = "uki" /\ log[i].dst = "no"
    /\ Cardinality(dir_contents["uki"]) = 4
    /\ Len(sorted_contents[1]) = 4
    /\ sorted_contents[1][1].dir = "linux"
    /\ dir_contents["linux"] = {sorted_contents[1][1].name, sorted_contents[1][2].name}

\* the positions of sorted_contents whose list has at most two entries
SmallSubLists == {k \in 1..Len(sorted_contents) : Len(sorted_contents[k]) <= 2}

\* C31: a prunable subdirectory with two or fewer entries, an empty one
\* included, is reported as already pruned and adds nothing to the removal
\* list, and the script goes on to the other subdirectories: once the
\* listing has succeeded the script never ends during the prompts, and when
\* the prompts are over each such subdirectory has its report.
C31_SmallDirSkipped ==
    /\ failed # "IndexError"
    /\ (pc = "prune" \/ (pc = "done" /\ failed = "none")) =>
          /\ Cardinality({i \in 1..Len(log) : log[i].op = "already_pruned"})
                = Cardinality(SmallSubLists)
          /\ \A j \in 1..Len(removal_list) : removal_list[j] # <<>>

\* the numbers of a version: 6.10 is <<6, 10>>
RECURSIVE VersionNumbers(_)
VersionNumbers(version) ==
    LET dots == {i \in 1..Len(version) : version[i] = "."}
    IN  IF dots = {} THEN <<ToInt(version)>>
        ELSE <<ToInt(SubSeq(version, 1, Min(dots) - 1))>>
                \o VersionNumbers(SubSeq(version, Min(dots) + 1, Len(version)))

\* a is an older version than b
RECURSIVE NumbersLess(_, _)
NumbersLess(a, b) ==
    IF a = <<>> THEN b # <<>>
    ELSE IF b = <<>> THEN FALSE
    ELSE IF Head(a) = Head(b) THEN NumbersLess(Tail(a), Tail(b))
    ELSE Head(a) < Head(b)

Older(v, w) == NumbersLess(VersionNumbers(v), VersionNumbers(w))

\* C32: the sort puts the newest versions first, so in every sorted list
\* the two entries that are kept are newer than every entry offered for
\* removal.
C32_KeptAreNewest ==
    \A k \in 1..Len(sorted_contents) :
       \A i \in 1..Len(sorted_contents[k]) :
          \A j \in 1..Len(sorted_contents[k]) :
             (i <= 2 /\ j > 2) =>
                Older(sorted_contents[k][j].name, sorted_contents[k][i].name)

----------------------------------------------------------------------------
(* clean_up_module_paths.py, main, lines 95-112.
   The entries of /lib/modules are directories named by a version. *)

ModulesInit ==
    /\ dir_contents \in [{"modules"} -> {c \in SUBSET Versions : Cardinality(c) <= MaxEntries}]
    /\ src_listing = <<>>
    /\ sorted_contents = <<>>
    /\ removal_list = <<>>
    /\ prompt_idx = 0
    /\ prune_pos = 0
    /\ pc = "list"
    /\ log = <<>>
    /\ failed = "none"
    /\ exit_status = "running"
    /\ linux_symlink = "absent"
    /\ path_dirs = <<>>
    /\ PipelineUnused
    /\ BackupUnused
    /\ UpdateUnused
    /\ SelectUnused
    /\ LocatorUnused

\* sys.exit(0)
ExitZero ==
    /\ pc' = "done"
    /\ exit_status' = "0"
    /\ UNCHANGED failed

\* list_contents, lines 61-92
ListContents ==
    /\ pc = "list"
    /\ IF Cardinality(dir_contents["modules"]) <= 2
       THEN /\ log' = Append(log, Ev("already_pruned", "/lib/modules", ""))
            /\ ExitZero
            /\ UNCHANGED sorted_contents
       ELSE /\ sorted_contents' = SortedDesc(dir_contents["modules"])
            /\ Goto("prompt")
            /\ UNCHANGED log
    /\ UNCHANGED <<restVars, selectVars, locatorVars, flags, environ, linux_symlink, tmpfs_layers,
                   published, boot_mounted, boot_efi, work_dir, src_listing,
                   dir_contents, removal_list, prompt_idx, prune_pos>>

\* removal_prompt, lines 115-157: one turn of its loop
ModulesPrompt ==
    /\ pc = "prompt"
    /\ \E typed \in PromptInputs :
          LET user_input == Lower(Strip(typed))
          IN  IF user_input \in {<<>>, <<"y">>, <<"yes">>}
              THEN /\ removal_list' = PathsToRemove(sorted_contents)
                   /\ prune_pos' = 1
                   /\ Goto("remove")
                   /\ UNCHANGED log
              ELSE IF user_input \in {<<"n">>, <<"no">>}
              THEN /\ log' = Append(log, Ev("exiting", "/lib/modules", ""))
                   /\ ExitZero
                   /\ UNCHANGED <<removal_list, prune_pos>>
              ELSE UNCHANGED <<removal_list, prune_pos, log, pc, failed, exit_status>>
    /\ UNCHANGED <<restVars, selectVars, locatorVars, flags, environ, linux_symlink, tmpfs_layers,
                   published, boot_mounted, boot_efi, work_dir, src_listing,
                   dir_contents, sorted_contents, prompt_idx>>

\* remove_modules, lines 178-184: one path; after an exception of
\* shutil.rmtree the message of line 184 is printed and the loop goes on
RemoveModule ==
    /\ pc = "remove"
    /\ prune_pos <= Len(removal_list)
    /\ \E ok \in Outcomes :
          LET path == removal_list[prune_pos]
          IN  IF ok
              THEN /\ dir_contents' = [dir_contents EXCEPT !["modules"] = @ \ {path}]
                   /\ log' = Append(log, Ev("rmtree", path, "removed"))
                   /\ prune_pos' = prune_pos + 1
                   /\ UNCHANGED <<pc, failed, exit_status>>
              ELSE /\ log' = Append(log, Ev("rmtree", path, "error"))
                   /\ prune_pos' = prune_pos + 1
                   /\ UNCHANGED <<dir_contents, pc, failed, exit_status>>
    /\ UNCHANGED <<restVars, selectVars, locatorVars, flags, environ, linux_symlink, tmpfs_layers,
                   published, boot_mounted, boot_efi, work_dir, src_listing,
                   sorted_contents, removal_list, prompt_idx>>

\* main, lines 110-112, after remove_modules returned
ReportSuccess ==
    /\ pc = "remove"
    /\ prune_pos > Len(removal_list)
    /\ log' = Append(log, Ev("success", "/lib/modules", ""))
    /\ ExitZero
    /\ UNCHANGED <<restVars, selectVars, locatorVars, pruneVars, flags, environ, linux_symlink,
                   tmpfs_layers, published, boot_mounted, boot_efi, work_dir>>

ModulesNext == ListContents \/ ModulesPrompt \/ RemoveModule \/ ReportSuccess

ModulesSpec == ModulesInit /\ [][ModulesNext]_vars

\* C33: the success message is printed only when every path of
\* paths_to_remove has been removed; a run in which a removal raised an
\* error does not print it.
C33_SuccessMeansRemoved ==
    (\E i \in 1..Len(log) : log[i].op = "success") =>
        /\ \A j \in 1..Len(removal_list) : removal_list[j] \notin dir_contents["modules"]
        /\ \A i \in 1..Len(log) : log[i].dst # "error"

----------------------------------------------------------------------------
(* create_backup_kernel.py, main, lines 175-222.
   /boot/efi/boot resolves into the boot partition while /boot is mounted
   and into the directory under the mount point while it is not. *)

\* what bootx64.efi and backup.efi can be before the run
BootFileStates == [main : {"absent", "kernel"}, backup : {"absent", "stale"}]

\* where a path under /boot leads
Visible == IF boot_mounted THEN "partition" ELSE "directory"

BackupInit ==
    /\ boot_mounted \in BOOLEAN
    /\ boot_files \in [{"partition", "directory"} -> BootFileStates]
    /\ kernel_version = "unset"
    /\ pc = "check_boot_dir"
    /\ log = <<>>
    /\ failed = "none"
    /\ exit_status = "running"
    /\ linux_symlink = "absent"
    /\ path_dirs = <<>>
    /\ is_uki = FALSE
    /\ sign_kernel = FALSE
    /\ install = FALSE
    /\ use_tmpfs = FALSE
    /\ compile_nvidia = FALSE
    /\ key_files = {}
    /\ tmpfs_layers = <<>>
    /\ published = [p \in OutputPaths |-> "absent"]
    /\ boot_efi = "old"
    /\ work_dir = "unset"
    /\ SelectUnused
    /\ LocatorUnused
    /\ PruneUnused
    /\ UpdateUnused

\* lines 188-194
CheckBootDir ==
    /\ pc = "check_boot_dir"
    /\ \E is_dir \in Outcomes : IF is_dir THEN Goto("mount_dir") ELSE Abort("no_boot_dir")
    /\ UNCHANGED <<selectVars, locatorVars, pruneVars, restVars, flags, environ,
                   linux_symlink, tmpfs_layers, published, boot_mounted, boot_efi,
                   work_dir, log>>

\* mount_dir, lines 104-124, called at line 196: an error of mount is
\* printed and the function returns; mount refuses a mounted /boot
MountDir ==
    /\ pc = "mount_dir"
    /\ \E ok \in Outcomes :
          IF ok /\ ~boot_mounted
          THEN /\ boot_mounted' = TRUE
               /\ log' = Append(log, Ev("mount", "ok", BootDir))
          ELSE /\ log' = Append(log, Ev("mount", "failed", BootDir))
               /\ UNCHANGED boot_mounted
    /\ Goto("get_kernel_version")
    /\ UNCHANGED <<selectVars, locatorVars, pruneVars, restVars, flags, environ,
                   linux_symlink, tmpfs_layers, published, boot_efi, work_dir>>

\* get_kernel_version, lines 70-101: None when file fails or prints fewer
\* than nine words; of a missing path file prints nine words and exits 0,
\* the ninth being "directory)"
VersionResults ==
    {"None"} \cup (IF boot_files[Visible].main = "absent" THEN {"directory)"}
                                                         ELSE {"6.9.1"})

\* sys.exit(1) at lines 209 and 219, the end of main otherwise
ExitStatusAlwaysZero(step) == "0"
ExitStatusAfter(step) == IF step = "none" THEN "0" ELSE "1"

\* lines 203-207
GetKernelVersion ==
    /\ pc = "get_kernel_version"
    /\ \E result \in VersionResults :
          /\ kernel_version' = result
          /\ log' = Append(log, Ev("file", BootEfiPath, result))
          /\ IF result = "None"
             THEN /\ failed' = "get_kernel_version"
                  /\ pc' = "unmount_dir"
                  /\ UNCHANGED exit_status
             ELSE Goto("copy")
    /\ UNCHANGED <<selectVars, locatorVars, pruneVars, updateVars, boot_files, flags,
                   environ, linux_symlink, tmpfs_layers, published, boot_mounted,
                   boot_efi, work_dir>>

\* lines 211-217: shutil.copy raises when the source is missing
CopyBackup ==
    /\ pc = "copy"
    /\ \E ok \in Outcomes :
          IF ok /\ boot_files[Visible].main # "absent"
          THEN /\ boot_files' = [boot_files EXCEPT ![Visible].backup = boot_files[Visible].main]
               /\ log' = Append(log, Ev("copied", BootEfiPath, Visible))
               /\ Goto("unmount_dir")
          ELSE /\ \E left \in (IF boot_files[Visible].main = "absent"
                               THEN {boot_files[Visible].backup}
                               ELSE {boot_files[Visible].backup, "partial"}) :
                      boot_files' = [boot_files EXCEPT ![Visible].backup = left]
               /\ log' = Append(log, Ev("copy_failed", BootEfiPath, Visible))
               /\ failed' = "copy"
               /\ pc' = "unmount_dir"
               /\ UNCHANGED exit_status
    /\ UNCHANGED <<selectVars, locatorVars, pruneVars, updateVars, kernel_version, flags,
                   environ, linux_symlink, tmpfs_layers, published, boot_mounted,
                   boot_efi, work_dir>>

\* unmount_dir, lines 127-147, called at line 208, 218 or 222, and the
\* exit that follows; an error of umount is printed and the function
\* returns
UnmountDir ==
    /\ pc = "unmount_dir"
    /\ log' = Append(log, Ev("umount", "", BootDir))
    /\ \E ok \in Outcomes :
          IF ok /\ boot_mounted THEN boot_mounted' = FALSE ELSE UNCHANGED boot_mounted
    /\ pc' = "done"
    /\ exit_status' = ExitStatusAfter(failed)
    /\ UNCHANGED <<selectVars, locatorVars, pruneVars, restVars, flags, environ,
                   linux_symlink, tmpfs_layers, published, boot_efi, work_dir, failed>>

BackupNext == CheckBootDir \/ MountDir \/ GetKernelVersion \/ CopyBackup \/ UnmountDir

BackupSpec == BackupInit /\ [][BackupNext]_vars

MountCalls == {i \in 1..Len(log) : log[i].op = "mount"}
UnmountCalls == {i \in 1..Len(log) : log[i].op = "umount"}

\* C34: unmount_dir is never called twice, and a run in which mount_dir was
\* called ends after exactly one call of unmount_dir, made after the mount,
\* with status 1 when the version lookup or the copy failed.
C34_MountBalanced ==
    /\ Cardinality(UnmountCalls) <= 1
    /\ (pc = "done" /\ MountCalls # {}) =>
          /\ Cardinality(UnmountCalls) = 1
          /\ \A m \in MountCalls : \A u \in UnmountCalls : m < u
          /\ failed \in {"get_kernel_version", "copy"} => exit_status = "1"

C34_Witness ==
    /\ pc = "done"
    /\ failed = "copy"
    /\ exit_status = "1"
    /\ Cardinality(MountCalls) = 1
    /\ Cardinality(UnmountCalls) = 1
    /\ log[Len(log)].op = "umount"

\* C35: in a run where the mount command failed no backup file is written
\* and no successful copy is reported.
C35_CopyOnlyWhenMounted ==
    (\E i \in 1..Len(log) : log[i].op = "mount" /\ log[i].src = "failed") =>
        /\ \A i \in 1..Len(log) : log[i].op # "copied"
        /\ \A where \in {"partition", "directory"} :
              boot_files[where].backup \in {"absent", "stale"}

----------------------------------------------------------------------------
(* update_kernel_sources.py, main, lines 116-263.
   A tree under /usr/src or under the local linux directory is named by
   the characters of its version, as the entries of the pruning scripts
   are. A configuration file is the sequence of its lines, a line a
   sequence of tokens without its line end. *)

\* the host names and the semantic versions of CONFIG_LOCALVERSION
Hosts == { <<"myhost">>, <<"my", "-", "host">> }
SemVers == { <<1, 2, 3>>, <<0, 9, 0>>, <<2, 10, 7>> }

DigitToken(n) ==
    CASE n = 0 -> "0" [] n = 1 -> "1" [] n = 2 -> "2" [] n = 3 -> "3"
      [] n = 4 -> "4" [] n = 5 -> "5" [] n = 6 -> "6" [] n = 7 -> "7"
      [] n = 8 -> "8" [] n = 9 -> "9"

\* str(n)
RECURSIVE ToStr(_)
ToStr(n) == IF n < 10 THEN <<DigitToken(n)>>
            ELSE ToStr(n \div 10) \o <<DigitToken(n % 10)>>

\* the line CONFIG_LOCALVERSION="-<host>-X.Y.Z"
LocalversionOf(host, semver) ==
    <<"CONFIG_LOCALVERSION", "=", "\"", "-">> \o host \o <<"-">>
        \o ToStr(semver[1]) \o <<".">> \o ToStr(semver[2]) \o <<".">>
        \o ToStr(semver[3]) \o <<"\"">>

\* the configurations the previous tree can have
UpdateConfigs ==
    { << <<"CONFIG_MODULES", "=", "y">>, LocalversionOf(h, v),
         <<"CONFIG_LOCALVERSION", "_AUTO", "=", "y">> >> : h \in Hosts, v \in SemVers }
      \cup { << <<"CONFIG_MODULES", "=", "y">> >> }

\* str.split(sep)
RECURSIVE SplitOn(_, _)
SplitOn(str, sep) ==
    LET at == {i \in 1..Len(str) : str[i] = sep}
    IN  IF at = {} THEN <<str>>
        ELSE LET first == CHOOSE i \in at : \A j \in at : i <= j
             IN  <<SubSeq(str, 1, first - 1)>>
                    \o SplitOn(SubSeq(str, first + 1, Len(str)), sep)

\* line.startswith("CONFIG_LOCALVERSION=")
IsLocalversionAssignment(line) ==
    Len(line) >= 2 /\ line[1] = "CONFIG_LOCALVERSION" /\ line[2] = "="

\* the result of statements that can raise: the exception, or the value
Raised(exception) == [raised |-> exception, value |-> <<>>]
Returned(value) == [raised |-> "none", value |-> value]

\* lines 222-244: new_line, or the exception the statements raise
IncrementLine(line) ==
    LET parts == SplitOn(RemoveAll(line, "\""), "=")
        version_parts == SplitOn(parts[2], "-")
    IN  IF Len(version_parts) < 3 THEN Raised("IndexError")
        ELSE LET sem_version == SplitOn(version_parts[3], ".")
             IN  IF Len(sem_version) < 2 THEN Raised("IndexError")
                 ELSE IF ~IsDigit(sem_version[2]) THEN Raised("ValueError")
                 ELSE IF Len(sem_version) < 3 THEN Raised("IndexError")
                 ELSE LET new_sem_version ==
                              sem_version[1] \o <<".">> \o ToStr(ToInt(sem_version[2]) + 1)
                                  \o <<".">> \o sem_version[3]
                          new_parts == <<parts[1]>>
                              \o [version_parts EXCEPT ![3] = new_sem_version]
                      IN  Returned(new_parts[1] \o <<"=", "\"", "-">> \o new_parts[3]
                                       \o <<"-">> \o new_parts[4] \o <<"\"">>)

\* lines 216-247: new_config_lines, or the first exception
RECURSIVE IncrementConfig(_)
IncrementConfig(lines) ==
    IF lines = <<>> THEN Returned(<<>>)
    ELSE LET new_line == IF IsLocalversionAssignment(Head(lines))
                         THEN IncrementLine(Head(lines))
                         ELSE Returned(Head(lines))
             rest == IncrementConfig(Tail(lines))
         IN  IF new_line.raised # "none" THEN new_line
             ELSE IF rest.raised # "none" THEN rest
             ELSE Returned(<<new_line.value>> \o rest.value)

UpdateInit ==
    /\ dir_contents \in [{"src", "local"} -> {c \in SUBSET Versions : Cardinality(c) <= MaxEntries}]
    /\ prev_config \in UpdateConfigs
    /\ config_file = <<>>
    /\ latest_kernel = <<>>
    /\ prev_kernel = <<>>
    /\ sorted_contents = <<>>
    /\ src_listing = <<>>
    /\ removal_list = <<>>
    /\ prompt_idx = 0
    /\ prune_pos = 0
    /\ kernels = <<>>
    /\ selection = -1
    /\ linux_ver = <<>>
    /\ kver = <<>>
    /\ pc = "find_latest"
    /\ log = <<>>
    /\ failed = "none"
    /\ exit_status = "running"
    /\ linux_symlink = "absent"
    /\ path_dirs = <<>>
    /\ PipelineUnused
    /\ LocatorUnused
    /\ BackupUnused

\* the variables no step of update_kernel_sources.py changes
updateFixed == <<locatorVars, backupVars, flags, environ, linux_symlink, tmpfs_layers,
                 published, boot_mounted, boot_efi, work_dir, kernels, selection,
                 linux_ver, kver, src_listing, removal_list, prompt_idx, prune_pos,
                 prev_config>>

\* lines 122-143
FindLatest ==
    /\ pc = "find_latest"
    /\ IF dir_contents["src"] = {}
       THEN /\ Abort("no_src_kernels")
            /\ UNCHANGED latest_kernel
       ELSE LET latest_kernel_path == SortedDesc(dir_contents["src"])[1]
            IN  IF latest_kernel_path \in dir_contents["local"]
                THEN /\ Abort("already_present")
                     /\ UNCHANGED latest_kernel
                ELSE /\ latest_kernel' = latest_kernel_path
                     /\ Goto("copytree")
    /\ UNCHANGED <<updateFixed, dir_contents, sorted_contents, config_file, prev_kernel, log>>

\* lines 146-155: a copy that fails can leave the new directory behind
CopyLatest ==
    /\ pc = "copytree"
    /\ \E ok \in Outcomes :
          IF ok
          THEN /\ dir_contents' = [dir_contents EXCEPT !["local"] = @ \cup {latest_kernel}]
               /\ log' = Append(log, Ev("copytree", latest_kernel, "copied"))
               /\ Goto("prev_config")
          ELSE /\ \E left \in {dir_contents["local"], dir_contents["local"] \cup {latest_kernel}} :
                     dir_contents' = [dir_contents EXCEPT !["local"] = left]
               /\ log' = Append(log, Ev("copytree", latest_kernel, "error"))
               /\ Abort("copytree")
    /\ UNCHANGED <<updateFixed, sorted_contents, config_file, latest_kernel, prev_kernel>>

\* lines 157-178: local_kernels[1] of a list of one raises IndexError,
\* which nothing catches; the new tree has no .config to copy from
CopyPrevConfig ==
    /\ pc = "prev_config"
    /\ sorted_contents' = SortedDesc(dir_contents["local"])
    /\ IF Len(sorted_contents') < 2
       THEN /\ Abort("IndexError")
            /\ UNCHANGED <<prev_kernel, config_file, log>>
       ELSE /\ prev_kernel' = sorted_contents'[2]
            /\ \E ok \in Outcomes :
                  IF ok /\ prev_kernel' # latest_kernel
                  THEN /\ config_file' = prev_config
                       /\ log' = Append(log, Ev("copyfile", prev_kernel', latest_kernel))
                       /\ Goto("prompt")
                  ELSE /\ log' = Append(log, Ev("copyfile_failed", prev_kernel', latest_kernel))
                       /\ Abort("copy_config")
                       /\ UNCHANGED config_file
    /\ UNCHANGED <<updateFixed, dir_contents, latest_kernel>>

\* lines 181-194: one turn of the loop
OldconfigPrompt ==
    /\ pc = "prompt"
    /\ \E typed \in PromptInputs :
          LET user_input == Lower(Strip(typed))
          IN  IF user_input \in {<<>>, <<"y">>, <<"yes">>}
              THEN Goto("oldconfig")
              ELSE IF user_input \in {<<"n">>, <<"no">>}
              THEN ExitZero
              ELSE UNCHANGED <<pc, failed, exit_status>>
    /\ UNCHANGED <<updateFixed, dir_contents, sorted_contents, config_file, latest_kernel,
                   prev_kernel, log>>

\* lines 197-205; make oldconfig keeps the lines this model has
MakeOldconfig ==
    /\ pc = "oldconfig"
    /\ log' = Append(log, Ev("make", "oldconfig", latest_kernel))
    /\ \E ok \in Outcomes : IF ok THEN Goto("increment") ELSE Abort("oldconfig")
    /\ UNCHANGED <<updateFixed, dir_contents, sorted_contents, config_file, latest_kernel,
                   prev_kernel>>

\* lines 207-263: an exception of lines 222-244 is not caught; write_text
\* truncates the file before it writes; without a CONFIG_LOCALVERSION=
\* line new_sem_version is unbound at line 255
IncrementMinor ==
    /\ pc = "increment"
    /\ log' = Append(log, Ev("increment", latest_kernel, ""))
    /\ LET new_config_lines == IncrementConfig(config_file)
       IN  IF new_config_lines.raised # "none"
           THEN /\ Abort(new_config_lines.raised)
                /\ UNCHANGED config_file
           ELSE \E ok \in Outcomes :
                   IF ~ok
                   THEN /\ config_file' \in {config_file, <<>>}
                        /\ Abort("write_config")
                   ELSE /\ config_file' = new_config_lines.value
                        /\ IF \E i \in 1..Len(config_file) :
                                 IsLocalversionAssignment(config_file[i])
                           THEN ExitZero
                           ELSE Abort("NameError")
    /\ UNCHANGED <<updateFixed, dir_contents, sorted_contents, latest_kernel, prev_kernel>>

UpdateNext ==
    \/ FindLatest
    \/ CopyLatest
    \/ CopyPrevConfig
    \/ OldconfigPrompt
    \/ MakeOldconfig
    \/ IncrementMinor

UpdateSpec == UpdateInit /\ [][UpdateNext]_vars

\* the step that increments the version has been taken
IncrementTaken == \E i \in 1..Len(log) : log[i].op = "increment"

\* C36: the step rewrites a line CONFIG_LOCALVERSION="-<host>-X.Y.Z" to
\* CONFIG_LOCALVERSION="-<host>-X.(Y+1).Z" for every host name and every
\* X.Y.Z, and writes every other line back as it was: it raises no
\* exception on such a line, and when the run ends well the new tree's
\* configuration is the previous one with only that change.
C36_MinorIncremented ==
    IncrementTaken =>
        /\ failed \notin {"IndexError", "ValueError"}
        /\ (pc = "done" /\ failed = "none") =>
              /\ Len(config_file) = Len(prev_config)
              /\ \A i \in 1..Len(prev_config) :
                    IF \E h \in Hosts, v \in SemVers : prev_config[i] = LocalversionOf(h, v)
                    THEN \E h \in Hosts, v \in SemVers :
                            /\ prev_config[i] = LocalversionOf(h, v)
                            /\ config_file[i] = LocalversionOf(h, <<v[1], v[2] + 1, v[3]>>)
                    ELSE config_file[i] = prev_config[i]

\* the new tree has been copied and the previous configuration looked for
PrevConfigTaken == pc \in {"prompt", "oldconfig", "increment"}
                      \/ (pc = "done" /\ failed \notin {"no_src_kernels", "already_present",
                                                       "copytree"})

\* C37: once the new tree is in the local linux directory it is the first
\* entry of the descending sort, a second entry exists, and that entry, the
\* tree the configuration is copied from, is the newest tree that was there
\* before the copy, whatever the directory held before, nothing included.
C37_ConfigFromPrevious ==
    PrevConfigTaken =>
        /\ failed # "IndexError"
        /\ Len(sorted_contents) >= 2
        /\ sorted_contents[1] = latest_kernel
        /\ prev_kernel = sorted_contents[2]
        /\ prev_kernel # latest_kernel
        /\ \A other \in dir_contents["local"] \ {latest_kernel, prev_kernel} :
              Older(other, prev_kernel)

============================================================================
